---- MODULE Spec2Model ----
(***************************************************************************)
(* The chain-of-responsibility request pipeline of core/handlers.py:       *)
(* ServiceRequest, the concrete handlers, and                              *)
(* HandlerConfigurator._chain_handlers, over a user repository, a wallet    *)
(* repository and a converter.                                             *)
(***************************************************************************)
EXTENDS Integers, Sequences, FiniteSets, TLC

\* ------------------------------------------------------------------ bounds
\* at most this many wallets are ever created (uuid4 calls) in one behaviour
MaxWallets == 5
\* longest handler list handed to _chain_handlers in a chain run
MaxChainLen == 2
\* most handler objects alive in the chaining model
MaxHandlers == 3
\* longest handler list handed to _chain_handlers in the chaining model
MaxListLen == 3

\* --------------------------------------------------------------- constants
\* Python's None: an absent attribute (get_attribute's default) or reference
None == "None"
\* every EmptyHandler instance: a dataclass without fields, all instances equal
EmptyHandler == "EmptyHandler"
\* len(user_wallets) >= 3
WalletLimit == 3
\* btc_balance=1.0, in BTC
InitialDeposit == 1
\* amount = 1 of BtcConversionHandler.handle
amount == 1

\* api keys a caller may send
ApiKeys == {"u1", "u2"}
\* the user repositories considered: u1 is a stored user, u2 is one or is not
UserRepositories == { {"u1"}, {"u1", "u2"} }
\* a wallet id no wallet ever has
MissingWalletId == "missing"
\* wallet ids a caller may send: the first addresses uuid4 gives, and the missing one
WalletIds == {MissingWalletId, "w1", "w2"}
\* USD values the converter may answer with
Rates == {43000}

ConcreteKinds ==
    { "ApiKeyValidationHandler", "BtcConversionHandler", "WalletCountHandler",
      "WalletRegistrationHandler", "WalletOwnershipHandler", "WalletFetchHandler" }
HandlerKinds == ConcreteKinds \cup {"BaseHandler"}

\* the wallet registration use case
RegistrationChain ==
    << "ApiKeyValidationHandler", "WalletCountHandler", "WalletRegistrationHandler" >>

\* nested handle calls the interpreter's stack admits (its recursion limit)
MaxDepth == 4

\* threads that may run a registration chain at the same time
MaxThreads == 2

Threads == 1..MaxThreads

\* a thread that runs no chain: its request is a fresh, empty ServiceRequest
IdleThread ==
    [status |-> "idle", pc |-> 0, request |-> [data |-> << >>, logs |-> << >>],
     error |-> "None"]

VARIABLES
    users,      \* UserRepository: the api keys of the stored users
    wallets,    \* WalletRepository: the stored Wallet records
    uuids,      \* number of uuid4() values drawn so far
    handlers,   \* the handler objects: reference |-> [kind, successor]
    head,       \* what the last _chain_handlers call returned
    chained,    \* the list the last _chain_handlers call was given
    request,    \* the ServiceRequest of the running chain: [data, logs]
    status,     \* "idle" | "linked" | "running" | "returned" | "raised"
    cur,        \* the handler whose handle is being invoked
    error,      \* the error the chain invocation ended with
    invoked,    \* the handlers whose handle was invoked in this run, in order
    calls,      \* the repository and converter calls of this run, in order
    request0,   \* the request's attributes when the chain was invoked
    wallets0,   \* the wallet repository when the chain was invoked
    threads     \* concurrent invocations of the registration chain, one per thread

vars == << users, wallets, uuids, handlers, head, chained, request, status, cur,
           error, invoked, calls, request0, wallets0, threads >>

\* ------------------------------------------------------------ ServiceRequest
\* _data is a dict: a function from the keys that were set to their values
ServiceRequest(data) == [data |-> data, logs |-> << >>]

\* _data.get(key, None)
get_attribute(req, key) == IF key \in DOMAIN req.data THEN req.data[key] ELSE None

\* _data[key] = value
set_attribute(req, key, value) ==
    [req EXCEPT !.data = [k \in DOMAIN req.data \cup {key} |->
                             IF k = key THEN value ELSE req.data[k]]]

\* request.logs.append(line)
log_append(req, line) == [req EXCEPT !.logs = Append(@, line)]

\* ------------------------------------------------------------- repositories
Wallet(user_id, btc_balance, wallet_address) ==
    [user_id |-> user_id, btc_balance |-> btc_balance, wallet_address |-> wallet_address]

\* UserRepository.read: succeeds iff a user with that key is stored
users_read_ok(api_key) == api_key \in users

\* WalletRepository.read_user_wallets
read_user_wallets(repo, api_key) == { w \in repo : w.user_id = api_key }

\* WalletRepository.read: the stored wallets with that id (none: WalletDoesNotExist)
wallets_read(repo, wallet_id) == { w \in repo : w.wallet_address = wallet_id }

\* WalletRepository.create
wallets_create(repo, wallet) == repo \cup {wallet}

\* uuid4(): a value not drawn before
uuid4 == "w" \o ToString(uuids + 1)

\* ----------------------------------------------------------------- chaining
\* a dataclass handler's successor field defaults to EmptyHandler();
\* BaseHandler.__init__ sets None
Construct(kind) ==
    [kind |-> kind, successor |-> IF kind = "BaseHandler" THEN None ELSE EmptyHandler]

\* [mutant] set_next returns its argument and assigns nothing
set_next_unassigned(hs, h, next_handler) == hs

\* h.set_next(next_handler) on the heap hs; EmptyHandler.set_next links nothing
set_next(hs, h, next_handler) ==
    IF h = EmptyHandler THEN hs ELSE [hs EXCEPT ![h].successor = next_handler]

RECURSIVE link_from_skipping(_, _, _)
\* [mutant] the loop advances by two: every second link is left out
link_from_skipping(hs, list, i) ==
    IF i > Len(list) - 1 THEN hs
    ELSE link_from_skipping(set_next(hs, list[i], list[i + 1]), list, i + 2)

RECURSIVE link_from(_, _, _)
\* the loop of _chain_handlers from index i (1-based) on
link_from(hs, list, i) ==
    IF i > Len(list) - 1 THEN hs
    ELSE link_from(set_next(hs, list[i], list[i + 1]), list, i + 1)

\* [mutant] the loop stops one link early: range(len(handlers) - 2)
chain_handlers_short(hs, list) ==
    IF list = << >>
    THEN [heap |-> hs, result |-> EmptyHandler]
    ELSE [heap |-> link_from(hs, SubSeq(list, 1, Len(list) - 1), 1), result |-> list[1]]

\* HandlerConfigurator._chain_handlers: [heap after, value returned]
chain_handlers(hs, list) ==
    IF list = << >>
    THEN [heap |-> hs, result |-> EmptyHandler]
    ELSE [heap |-> link_from(hs, list, 1), result |-> list[1]]

\* the reference of the i-th handler object constructed
Ref(i) == "h" \o ToString(i)

\* the heap hs with one more handler, freshly constructed
Allocate(hs, kind) ==
    LET r == Ref(Cardinality(DOMAIN hs) + 1)
    IN  [h \in DOMAIN hs \cup {r} |-> IF h = r THEN Construct(kind) ELSE hs[h]]

\* no handler object
NoHandlers == [h \in {} |-> Construct("BaseHandler")]

\* fresh handlers of the given kinds, one per list place
ConstructAll(kinds) == [h \in {Ref(i) : i \in 1..Len(kinds)} |->
                          Construct(kinds[CHOOSE i \in 1..Len(kinds) : Ref(i) = h])]

\* the references of ConstructAll(kinds), in list order
RefList(kinds) == [i \in 1..Len(kinds) |-> Ref(i)]

\* ------------------------------------------------------------ handler bodies
\* What one handle call does before it delegates: the request, the wallet
\* repository and the uuid counter after it, the collaborator calls it made,
\* and the error it raised (None: it goes on to successor.handle(request)).
Outcome(req, repo, n, made, err) ==
    [request |-> req, wallets |-> repo, uuids |-> n, calls |-> made, error |-> err]

\* [mutant] the limit test written with > for >=
wallet_limit_reached_strict(user_wallets) == Cardinality(user_wallets) > WalletLimit

\* if len(user_wallets) >= 3
wallet_limit_reached(user_wallets) == Cardinality(user_wallets) >= WalletLimit

\* [mutant] the id is looked for among the owners, not among the addresses
not_owned_wrong_field(wallet_id, user_wallets) ==
    wallet_id \notin { w.user_id : w \in user_wallets }

\* wallet_id not in [wallet.wallet_address for wallet in user_wallets]
not_owned(wallet_id, user_wallets) ==
    wallet_id \notin { w.wallet_address : w \in user_wallets }

\* [mutant] every wallet gets the same address
created_wallet_fixed_address(api_key) == Wallet(api_key, InitialDeposit, "w1")

\* Wallet(user_id=api_key, btc_balance=1.0, wallet_address=uuid4())
created_wallet(api_key) == Wallet(api_key, InitialDeposit, uuid4)

\* [mutant] the user is read whether or not the request carries an api_key
ApiKeyValidationHandler_body_ungated(req) ==
    LET api_key == get_attribute(req, "api_key") IN
    Outcome(req, wallets, uuids, << <<"users.read", api_key>> >>,
            IF users_read_ok(api_key) THEN None ELSE "UserDoesNotExistError")

\* [mutant] the failed lookup is caught and dropped
ApiKeyValidationHandler_body_swallowed(req) ==
    LET api_key == get_attribute(req, "api_key") IN
    IF api_key # None
    THEN Outcome(req, wallets, uuids, << <<"users.read", api_key>> >>, None)
    ELSE Outcome(log_append(req, "API key validation skipped, no api_key provided"),
                 wallets, uuids, << >>, None)

ApiKeyValidationHandler_body(req) ==
    LET api_key == get_attribute(req, "api_key") IN
    IF api_key # None
    THEN Outcome(req, wallets, uuids, << <<"users.read", api_key>> >>,
                 IF users_read_ok(api_key) THEN None ELSE "UserDoesNotExistError")
    ELSE Outcome(log_append(req, "API key validation skipped, no api_key provided"),
                 wallets, uuids, << >>, None)

\* [mutant] a failure of the converter is swallowed and the chain goes on
BtcConversionHandler_body_swallowing(req, response) ==
    IF "USD" \in DOMAIN response
    THEN Outcome(set_attribute(req, "exchange_rate", response["USD"]), wallets, uuids,
                 << <<"converter.get_conversion", "btc", "usd", ToString(amount)>> >>, None)
    ELSE Outcome(req, wallets, uuids,
                 << <<"converter.get_conversion", "btc", "usd", ToString(amount)>> >>,
                 None)

\* response: what converter.get_conversion answered, [USD |-> rate], or its failure
BtcConversionHandler_body(req, response) ==
    IF "USD" \in DOMAIN response
    THEN Outcome(set_attribute(req, "exchange_rate", response["USD"]), wallets, uuids,
                 << <<"converter.get_conversion", "btc", "usd", ToString(amount)>> >>, None)
    ELSE Outcome(req, wallets, uuids,
                 << <<"converter.get_conversion", "btc", "usd", ToString(amount)>> >>,
                 response["error"])

\* [mutant] the wallets are read but the count is never tested
WalletCountHandler_body_unchecked(req) ==
    LET api_key == get_attribute(req, "api_key") IN
    IF api_key # None
    THEN Outcome(req, wallets, uuids, << <<"wallets.read_user_wallets", api_key>> >>, None)
    ELSE Outcome(log_append(req, "Wallet count skipped, no api_key provided"),
                 wallets, uuids, << >>, None)

\* [mutant] the count that was read is kept in the request
WalletCountHandler_body_recording(req) ==
    LET api_key == get_attribute(req, "api_key") IN
    IF api_key # None
    THEN Outcome(set_attribute(req, "wallet_count",
                               ToString(Cardinality(read_user_wallets(wallets, api_key)))),
                 wallets, uuids, << <<"wallets.read_user_wallets", api_key>> >>,
                 IF wallet_limit_reached(read_user_wallets(wallets, api_key))
                 THEN "WalletLimitError" ELSE None)
    ELSE Outcome(log_append(req, "Wallet count skipped, no api_key provided"),
                 wallets, uuids, << >>, None)

WalletCountHandler_body(req) ==
    LET api_key == get_attribute(req, "api_key") IN
    IF api_key # None
    THEN Outcome(req, wallets, uuids, << <<"wallets.read_user_wallets", api_key>> >>,
                 IF wallet_limit_reached(read_user_wallets(wallets, api_key))
                 THEN "WalletLimitError" ELSE None)
    ELSE Outcome(log_append(req, "Wallet count skipped, no api_key provided"),
                 wallets, uuids, << >>, None)

WalletRegistrationHandler_body(req) ==
    LET api_key == get_attribute(req, "api_key") IN
    IF api_key # None
    THEN LET w == created_wallet(api_key) IN
         Outcome(set_attribute(set_attribute(req, "wallet_id", w.wallet_address),
                               "wallet", w),
                 wallets_create(wallets, w), uuids + 1,
                 << <<"wallets.create", w.wallet_address>> >>, None)
    ELSE Outcome(log_append(req, "Wallet Registration skipped, no api_key provided"),
                 wallets, uuids, << >>, None)

\* [mutant] the two skip tests are separate ifs, so both may log
WalletOwnershipHandler_body_twice(req) ==
    LET api_key == get_attribute(req, "api_key")
        wallet_id == get_attribute(req, "wallet_id")
        first == IF api_key = None
                 THEN log_append(req, "Wallet ownership check skipped, no api_key provided")
                 ELSE req
        second == IF wallet_id = None
                  THEN log_append(first, "Wallet ownership check skipped, no wallet_id provided")
                  ELSE first
    IN  IF api_key = None \/ wallet_id = None
        THEN Outcome(second, wallets, uuids, << >>, None)
        ELSE Outcome(req, wallets, uuids, << <<"wallets.read_user_wallets", api_key>> >>,
                     IF not_owned(wallet_id, read_user_wallets(wallets, api_key))
                     THEN "WalletOwnershipError" ELSE None)

WalletOwnershipHandler_body(req) ==
    LET api_key == get_attribute(req, "api_key")
        wallet_id == get_attribute(req, "wallet_id")
    IN  IF api_key = None
        THEN Outcome(log_append(req, "Wallet ownership check skipped, no api_key provided"),
                     wallets, uuids, << >>, None)
        ELSE IF wallet_id = None
        THEN Outcome(log_append(req, "Wallet ownership check skipped, no wallet_id provided"),
                     wallets, uuids, << >>, None)
        ELSE Outcome(req, wallets, uuids, << <<"wallets.read_user_wallets", api_key>> >>,
                     IF not_owned(wallet_id, read_user_wallets(wallets, api_key))
                     THEN "WalletOwnershipError" ELSE None)

\* [mutant] a missing wallet is caught and dropped
WalletFetchHandler_body_lenient(req) ==
    LET wallet_id == get_attribute(req, "wallet_id") IN
    IF wallet_id # None
    THEN LET found == wallets_read(wallets, wallet_id) IN
         IF found # {}
         THEN Outcome(set_attribute(req, "wallet", CHOOSE w \in found : TRUE),
                      wallets, uuids, << <<"wallets.read", wallet_id>> >>, None)
         ELSE Outcome(req, wallets, uuids, << <<"wallets.read", wallet_id>> >>, None)
    ELSE Outcome(log_append(req, "Wallet fetch skipped, wallet_id was not provided"),
                 wallets, uuids, << >>, None)

WalletFetchHandler_body(req) ==
    LET wallet_id == get_attribute(req, "wallet_id") IN
    IF wallet_id # None
    THEN LET found == wallets_read(wallets, wallet_id) IN
         IF found # {}
         THEN Outcome(set_attribute(req, "wallet", CHOOSE w \in found : TRUE),
                      wallets, uuids, << <<"wallets.read", wallet_id>> >>, None)
         ELSE Outcome(req, wallets, uuids, << <<"wallets.read", wallet_id>> >>,
                      "WalletDoesNotExistError")
    ELSE Outcome(log_append(req, "Wallet fetch skipped, wallet_id was not provided"),
                 wallets, uuids, << >>, None)

\* ------------------------------------------------------------------ actions
\* cur is a handler object of the given class and its handle is being invoked
Invoking(kind) ==
    /\ status = "running"
    /\ cur \in DOMAIN handlers
    /\ handlers[cur].kind = kind
    /\ Len(invoked) < MaxDepth

\* [mutant] the error is recorded and the successor is invoked all the same
Apply_continue(out) ==
    /\ request' = out.request
    /\ wallets' = out.wallets
    /\ uuids' = out.uuids
    /\ calls' = calls \o out.calls
    /\ invoked' = Append(invoked, cur)
    /\ status' = "running"
    /\ error' = out.error
    /\ cur' = handlers[cur].successor
    /\ UNCHANGED << threads, users, handlers, head, chained, request0, wallets0 >>

\* the handle call of cur takes effect: it raises out.error, which ends the
\* chain invocation, or it calls self.successor.handle(request)
\* [mutant] a raising handler undoes what the chain did to the wallet repository
Apply_rollback(out) ==
    /\ request' = out.request
    /\ wallets' = IF out.error # None THEN wallets0 ELSE out.wallets
    /\ uuids' = out.uuids
    /\ calls' = calls \o out.calls
    /\ invoked' = Append(invoked, cur)
    /\ IF out.error # None
       THEN /\ status' = "raised"
            /\ error' = out.error
            /\ cur' = cur
       ELSE /\ status' = "running"
            /\ error' = error
            /\ cur' = handlers[cur].successor
    /\ UNCHANGED << threads, users, handlers, head, chained, request0, wallets0 >>

Apply(out) ==
    /\ request' = out.request
    /\ wallets' = out.wallets
    /\ uuids' = out.uuids
    /\ calls' = calls \o out.calls
    /\ invoked' = Append(invoked, cur)
    /\ IF out.error # None
       THEN /\ status' = "raised"
            /\ error' = out.error
            /\ cur' = cur
       ELSE /\ status' = "running"
            /\ error' = error
            /\ cur' = handlers[cur].successor
    /\ UNCHANGED << threads, users, handlers, head, chained, request0, wallets0 >>

ApiKeyValidationHandler_handle ==
    /\ Invoking("ApiKeyValidationHandler")
    /\ Apply(ApiKeyValidationHandler_body(request))

\* what converter.get_conversion may do: answer a mapping with the USD value, or fail
ConverterResponses == { [USD |-> r] : r \in Rates } \cup { [error |-> "ConverterError"] }

BtcConversionHandler_handle ==
    /\ Invoking("BtcConversionHandler")
    /\ \E response \in ConverterResponses :
          Apply(BtcConversionHandler_body(request, response))

WalletCountHandler_handle ==
    /\ Invoking("WalletCountHandler")
    /\ Apply(WalletCountHandler_body(request))

WalletRegistrationHandler_handle ==
    /\ Invoking("WalletRegistrationHandler")
    /\ Apply(WalletRegistrationHandler_body(request))

WalletOwnershipHandler_handle ==
    /\ Invoking("WalletOwnershipHandler")
    /\ Apply(WalletOwnershipHandler_body(request))

WalletFetchHandler_handle ==
    /\ Invoking("WalletFetchHandler")
    /\ Apply(WalletFetchHandler_body(request))

\* EmptyHandler.handle: pass; every handle call on the stack then returns
EmptyHandler_handle ==
    /\ status = "running"
    /\ cur = EmptyHandler
    /\ status' = "returned"
    /\ UNCHANGED << threads, users, wallets, uuids, handlers, head, chained, request, cur,
                    error, invoked, calls, request0, wallets0 >>

\* the attribute mappings a caller builds a request with
InitialData ==
    { [k \in {} |-> None] }
    \cup { [api_key |-> a] : a \in ApiKeys }
    \cup { [wallet_id |-> w] : w \in WalletIds }
    \cup { [api_key |-> a, wallet_id |-> w] : a \in ApiKeys, w \in WalletIds }

\* number of places of the list kinds that hold kind
CountKind(kinds, kind) == Cardinality({ i \in 1..Len(kinds) : kinds[i] = kind })

\* A caller serves one request: the configurator constructs the handlers of the
\* use case, links them with _chain_handlers, and the caller invokes
\* chain.handle(ServiceRequest(data)).
Serve(kinds, data) ==
    /\ status = "idle"
    /\ uuids + CountKind(kinds, "WalletRegistrationHandler") <= MaxWallets
    /\ LET built == chain_handlers(ConstructAll(kinds), RefList(kinds)) IN
       /\ handlers' = built.heap
       /\ head' = built.result
       /\ cur' = built.result
    /\ chained' = RefList(kinds)
    /\ request' = ServiceRequest(data)
    /\ request0' = data
    /\ wallets0' = wallets
    /\ status' = "running"
    /\ invoked' = << >>
    /\ calls' = << >>
    /\ error' = None
    /\ UNCHANGED << threads, users, wallets, uuids >>

\* the caller has taken the result; the request and the chain are discarded
Finish ==
    /\ status \in {"returned", "raised"}
    /\ status' = "idle"
    /\ handlers' = NoHandlers
    /\ head' = EmptyHandler
    /\ chained' = << >>
    /\ cur' = EmptyHandler
    /\ request' = ServiceRequest([k \in {} |-> None])
    /\ request0' = [k \in {} |-> None]
    /\ wallets0' = {}
    /\ invoked' = << >>
    /\ calls' = << >>
    /\ error' = None
    /\ UNCHANGED << threads, users, wallets, uuids >>

RECURSIVE SeqsUpTo(_, _)
\* the sequences over S of length at most n
SeqsUpTo(S, n) ==
    IF n = 0 THEN { << >> }
    ELSE LET shorter == SeqsUpTo(S, n - 1)
         IN  shorter \cup { Append(s, x) : s \in shorter, x \in S }

\* the chains callers run: the registration use case and every short list
Chains == SeqsUpTo(ConcreteKinds, MaxChainLen) \cup {RegistrationChain}

\* the state with the user repository stored and no request served yet
Start(stored) ==
    /\ users = stored
    /\ wallets = {}
    /\ uuids = 0
    /\ handlers = NoHandlers
    /\ head = EmptyHandler
    /\ chained = << >>
    /\ request = ServiceRequest([k \in {} |-> None])
    /\ status = "idle"
    /\ cur = EmptyHandler
    /\ error = None
    /\ invoked = << >>
    /\ calls = << >>
    /\ request0 = [k \in {} |-> None]
    /\ wallets0 = {}
    /\ threads = [t \in Threads |-> IdleThread]

\* u1 is a stored user, u2's key identifies nobody
Init == Start({"u1"})

ServeAny ==
    /\ status = "idle"
    /\ \E kinds \in Chains, data \in InitialData : Serve(kinds, data)

Next ==
    \/ ServeAny
    \/ ApiKeyValidationHandler_handle
    \/ BtcConversionHandler_handle
    \/ WalletCountHandler_handle
    \/ WalletRegistrationHandler_handle
    \/ WalletOwnershipHandler_handle
    \/ WalletFetchHandler_handle
    \/ EmptyHandler_handle
    \/ Finish

Spec == Init /\ [][Next]_vars

\* ------------------------------------------------- the registration use case
\* callers run the wallet registration chain only
ServeRegistration ==
    /\ status = "idle"
    /\ \E data \in InitialData : Serve(RegistrationChain, data)

NextRegistration ==
    \/ ServeRegistration
    \/ ApiKeyValidationHandler_handle
    \/ WalletCountHandler_handle
    \/ WalletRegistrationHandler_handle
    \/ EmptyHandler_handle
    \/ Finish

InitRegistration == \E stored \in UserRepositories : Start(stored)

SpecRegistration == InitRegistration /\ [][NextRegistration]_vars

\* ---------------------------------------------------------- chaining alone
\* the handler classes constructed in the chaining model: a class matters to
\* chaining only through its default successor, and the concrete classes share
\* theirs, as they share BaseHandler.set_next
ChainingKinds == {"BaseHandler", "ApiKeyValidationHandler"}

\* a handler object is constructed
ConstructHandler ==
    /\ status = "idle"
    /\ Cardinality(DOMAIN handlers) < MaxHandlers
    /\ \E kind \in ChainingKinds : handlers' = Allocate(handlers, kind)
    /\ UNCHANGED << threads, users, wallets, uuids, head, chained, request, status, cur,
                    error, invoked, calls, request0, wallets0 >>

\* the lists over S of length at most n that hold no element twice
ListsOf(S, n) ==
    { list \in SeqsUpTo(S, n) : \A i, j \in 1..Len(list) : list[i] = list[j] => i = j }

\* _chain_handlers is called on a list of existing handlers, with or without
\* an EmptyHandler among them, no object listed twice
ChainHandlers ==
    /\ status = "idle"
    /\ \E list \in ListsOf(DOMAIN handlers \cup {EmptyHandler}, MaxListLen) :
          LET built == chain_handlers(handlers, list) IN
          /\ handlers' = built.heap
          /\ head' = built.result
          /\ chained' = list
    /\ status' = "linked"
    /\ UNCHANGED << threads, users, wallets, uuids, request, cur,
                    error, invoked, calls, request0, wallets0 >>

\* the caller lets go of the chain; the handler objects stay alive
Release ==
    /\ status = "linked"
    /\ status' = "idle"
    /\ head' = EmptyHandler
    /\ chained' = << >>
    /\ UNCHANGED << threads, users, wallets, uuids, handlers, request, cur,
                    error, invoked, calls, request0, wallets0 >>

\* the caller invokes handle on a chain whose head is an EmptyHandler
InvokeEmptyChain ==
    /\ status = "linked"
    /\ head = EmptyHandler
    /\ \E data \in InitialData :
          /\ request' = ServiceRequest(data)
          /\ request0' = data
    /\ wallets0' = wallets
    /\ cur' = head
    /\ status' = "running"
    /\ UNCHANGED << threads, users, wallets, uuids, handlers, head, chained,
                    error, invoked, calls >>

NextChaining ==
    \/ ConstructHandler
    \/ ChainHandlers
    \/ Release
    \/ InvokeEmptyChain
    \/ EmptyHandler_handle
    \/ Finish

SpecChaining == Init /\ [][NextChaining]_vars

\* ------------------------------------------- invoking chains of reused handlers
\* BaseHandler.handle: raise NotImplementedError
BaseHandler_body(req) == Outcome(req, wallets, uuids, << >>, "NotImplementedError")

BaseHandler_handle ==
    /\ Invoking("BaseHandler")
    /\ Apply(BaseHandler_body(request))

\* the requests given to chains of validation handlers
ChainingData ==
    { [k \in {} |-> None] } \cup { [k \in {"api_key"} |-> a] : a \in ApiKeys }

\* the caller invokes handle on the head of the chain it has built
InvokeChain ==
    /\ status = "linked"
    /\ \E data \in ChainingData :
          /\ request' = ServiceRequest(data)
          /\ request0' = data
    /\ wallets0' = wallets
    /\ cur' = head
    /\ status' = "running"
    /\ UNCHANGED << threads, users, wallets, uuids, handlers, head, chained,
                    error, invoked, calls >>

\* a handle call one level too deep: the interpreter raises RecursionError
RecursionError_raise ==
    /\ status = "running"
    /\ cur \in DOMAIN handlers
    /\ Len(invoked) >= MaxDepth
    /\ status' = "raised"
    /\ error' = "RecursionError"
    /\ UNCHANGED << threads, users, wallets, uuids, handlers, head, chained, request,
                    cur, invoked, calls, request0, wallets0 >>

NextReuse ==
    \/ ConstructHandler
    \/ ChainHandlers
    \/ Release
    \/ InvokeChain
    \/ ApiKeyValidationHandler_handle
    \/ BaseHandler_handle
    \/ EmptyHandler_handle
    \/ RecursionError_raise
    \/ Finish

SpecReuse == Init /\ [][NextReuse]_vars

\* ================================================================== claims
\* the classes of the handlers of the running chain, in list order
ChainKinds == [i \in 1..Len(chained) |-> handlers[chained[i]].kind]

\* the wallets of repo whose owner is key
OwnedBy(repo, key) == { w \in repo : w.user_id = key }

\* the chain invocation has ended
Ended == status \in {"returned", "raised"}

\* the registration chain is serving a request that carries a stored user's key
RegistrationFor(key) ==
    /\ status # "idle"
    /\ ChainKinds = RegistrationChain
    /\ "api_key" \in DOMAIN request0
    /\ request0["api_key"] = key
    /\ key \in users

\* the classes of the handlers invoked so far
InvokedKinds == { handlers[invoked[i]].kind : i \in 1..Len(invoked) }

\* C1: when a stored user owns 3 or more wallets, the registration chain on a
\* request with that user's key never invokes WalletRegistrationHandler, leaves
\* the wallet repository as it was, and ends with WalletLimitError raised by
\* WalletCountHandler.
C1_LimitStopsRegistration ==
    \A key \in ApiKeys :
        (RegistrationFor(key) /\ Cardinality(OwnedBy(wallets0, key)) >= 3) =>
            /\ wallets = wallets0
            /\ "WalletRegistrationHandler" \notin InvokedKinds
            /\ status # "returned"
            /\ status = "raised" =>
                  /\ error = "WalletLimitError"
                  /\ handlers[invoked[Len(invoked)]].kind = "WalletCountHandler"

\* C1 witness: the chain has raised WalletLimitError for a user with 3 wallets
C1_Witness ==
    \E key \in ApiKeys :
        /\ RegistrationFor(key)
        /\ Cardinality(OwnedBy(wallets0, key)) = 3
        /\ status = "raised"
        /\ error = "WalletLimitError"

\* the case of more than 3 wallets is reached as well
C1_MoreThanThree ==
    \E key \in ApiKeys :
        /\ RegistrationFor(key)
        /\ Cardinality(OwnedBy(wallets0, key)) > 3
        /\ status = "raised"

\* C2: under sequential runs of the registration chain from a repository
\* where nobody owns more than 3 wallets, nobody ever owns more than 3 wallets.
C2_AtMostThreeWallets ==
    \A key \in ApiKeys : Cardinality(OwnedBy(wallets, key)) <= 3

\* C2 witness: a user owns 3 wallets and a further registration was refused
C2_Witness ==
    /\ \E key \in ApiKeys : Cardinality(OwnedBy(wallets, key)) = 3
    /\ status = "raised"
    /\ error = "WalletLimitError"
    /\ wallets = wallets0

\* the handlers that act only when the request carries an api_key
Gated == { "ApiKeyValidationHandler", "WalletCountHandler",
           "WalletRegistrationHandler", "WalletOwnershipHandler" }

\* C3 (one handler): on a request without api_key a gated handler calls no
\* repository, changes nothing but the log, to which it appends one entry,
\* raises nothing and invokes its successor.
C3_SkipStep ==
    ( /\ status = "running"
      /\ cur \in DOMAIN handlers
      /\ handlers[cur].kind \in Gated
      /\ "api_key" \notin DOMAIN request.data )
    => /\ calls' = calls
       /\ wallets' = wallets
       /\ uuids' = uuids
       /\ users' = users
       /\ request'.data = request.data
       /\ Len(request'.logs) = Len(request.logs) + 1
       /\ SubSeq(request'.logs, 1, Len(request.logs)) = request.logs
       /\ status' = "running"
       /\ error' = None
       /\ invoked' = Append(invoked, cur)
       /\ cur' = handlers[cur].successor

\* C3 (the chain): a chain of gated handlers only, on a request without
\* api_key, never raises, and when it has returned every handler was invoked
\* and has logged its skip.
C3_RunsToEnd ==
    ( /\ status # "idle"
      /\ "api_key" \notin DOMAIN request0
      /\ \A i \in 1..Len(chained) : ChainKinds[i] \in Gated )
    => /\ status # "raised"
       /\ status = "returned" =>
             /\ invoked = chained
             /\ Len(request.logs) = Len(chained)
             /\ calls = << >>

\* C3: requests without api_key pass every api-key-gated handler, each of
\* which skips, logs the skip and delegates, so such chains run to their end.
C3_MissingApiKeySkips == [] C3_RunsToEnd /\ [][C3_SkipStep]_vars

\* C3 witness: a chain of two or more gated handlers has returned on a request
\* without api_key, each handler having logged one skip
C3_Witness ==
    /\ status = "returned"
    /\ "api_key" \notin DOMAIN request0
    /\ Len(chained) >= 2
    /\ \A i \in 1..Len(chained) : ChainKinds[i] \in Gated
    /\ Len(request.logs) = Len(chained)

\* the error each handler class raises when its check fails
ErrorOf(kind) ==
    CASE kind = "ApiKeyValidationHandler" -> "UserDoesNotExistError"
      [] kind = "BtcConversionHandler" -> "ConverterError"
      [] kind = "WalletCountHandler" -> "WalletLimitError"
      [] kind = "WalletOwnershipHandler" -> "WalletOwnershipError"
      [] kind = "WalletFetchHandler" -> "WalletDoesNotExistError"
      [] OTHER -> None

\* C4 (the end state): a chain that has raised ended at the handler that
\* raised: the handlers invoked are the list up to that handler, and the error
\* is that handler's.
C4_RaisedState ==
    status = "raised" =>
        /\ Len(invoked) >= 1
        /\ invoked = SubSeq(chained, 1, Len(invoked))
        /\ cur = invoked[Len(invoked)]
        /\ error # None
        /\ error = ErrorOf(handlers[cur].kind)

\* C4 (the steps): the step in which an error arises ends the invocation, and
\* after it no handler is invoked: the caller takes the result.
C4_RaiseStep ==
    /\ (error = None /\ error' # None) =>
          /\ status = "running"
          /\ status' = "raised"
          /\ invoked' = Append(invoked, cur)
    /\ status = "raised" =>
          /\ status' = "idle"
          /\ wallets' = wallets
          /\ uuids' = uuids

\* C4: when a handler raises, no handler after it is invoked and the chain
\* invocation ends with exactly that error.
C4_RaiseEndsChain == [] C4_RaisedState /\ [][C4_RaiseStep]_vars

\* C4 witness: the second handler of a chain of three has raised
C4_Witness ==
    /\ status = "raised"
    /\ Len(chained) = 3
    /\ invoked = SubSeq(chained, 1, 2)

\* C5: with api_key and wallet_id present, WalletOwnershipHandler raises
\* WalletOwnershipError when no wallet of that owner has that address, and
\* otherwise raises nothing, writes nothing and invokes its successor.
C5_OwnershipStep ==
    ( /\ Invoking("WalletOwnershipHandler")
      /\ "api_key" \in DOMAIN request.data
      /\ "wallet_id" \in DOMAIN request.data )
    => IF \E w \in wallets : /\ w.user_id = request.data["api_key"]
                             /\ w.wallet_address = request.data["wallet_id"]
       THEN /\ status' = "running"
            /\ error' = None
            /\ cur' = handlers[cur].successor
            /\ request' = request
            /\ wallets' = wallets
            /\ uuids' = uuids
            /\ users' = users
       ELSE /\ status' = "raised"
            /\ error' = "WalletOwnershipError"

C5_OwnershipCheck == [][C5_OwnershipStep]_vars

\* C5 witness: WalletOwnershipError was raised for a wallet that exists and
\* is another owner's
C5_Witness ==
    /\ status = "raised"
    /\ error = "WalletOwnershipError"
    /\ \E w \in wallets : /\ w.wallet_address = request.data["wallet_id"]
                          /\ w.user_id # request.data["api_key"]

\* the pass case of C5 is reached as well
C5_PassReached ==
    /\ status = "returned"
    /\ ChainKinds = << "WalletOwnershipHandler" >>
    /\ "api_key" \in DOMAIN request0
    /\ "wallet_id" \in DOMAIN request0

\* the addresses issued so far
Issued == { "w" \o ToString(i) : i \in 1..uuids } \cup { w.wallet_address : w \in wallets }

\* C6 (one execution): WalletRegistrationHandler on a request with api_key adds
\* exactly one wallet, of balance 1.0, owned by the api_key, with an address
\* not issued before, and sets wallet_id and wallet to it.
C6_RegistrationStep ==
    ( /\ Invoking("WalletRegistrationHandler")
      /\ "api_key" \in DOMAIN request.data )
    => LET new == wallets' \ wallets IN
       /\ wallets \subseteq wallets'
       /\ Cardinality(new) = 1
       /\ \A w \in new :
             /\ w.btc_balance = 1
             /\ w.user_id = request.data["api_key"]
             /\ w.wallet_address \notin Issued
             /\ "wallet_id" \in DOMAIN request'.data
             /\ request'.data["wallet_id"] = w.wallet_address
             /\ "wallet" \in DOMAIN request'.data
             /\ request'.data["wallet"] = w

\* C6 (consequence): the wallet addresses of the repository are pairwise distinct
C6_DistinctAddresses ==
    \A a, b \in wallets : a.wallet_address = b.wallet_address => a = b

C6_RegistrationCreatesFreshWallet ==
    [] C6_DistinctAddresses /\ [][C6_RegistrationStep]_vars

\* C6 witness: a registration has added a wallet to a repository that held
\* wallets already, and the request carries it
C6_Witness ==
    /\ status = "returned"
    /\ wallets0 # {}
    /\ "wallet" \in DOMAIN request.data
    /\ request.data["wallet"] \in wallets \ wallets0

\* C7: for a stored user with fewer than 3 wallets the registration chain
\* ends without error, the user owns one wallet more, every wallet stored
\* before is stored unchanged, and the request carries a new wallet_id and a
\* wallet of balance 1.0.
C7_RegistrationSucceeds ==
    \A key \in ApiKeys :
        ( /\ RegistrationFor(key)
          /\ Cardinality(OwnedBy(wallets0, key)) < 3
          /\ Ended )
        => /\ status = "returned"
           /\ error = None
           /\ Cardinality(OwnedBy(wallets, key)) = Cardinality(OwnedBy(wallets0, key)) + 1
           /\ wallets0 \subseteq wallets
           /\ Cardinality(wallets \ wallets0) = 1
           /\ "wallet_id" \in DOMAIN request.data
           /\ "wallet" \in DOMAIN request.data
           /\ request.data["wallet_id"] \notin { w.wallet_address : w \in wallets0 }
           /\ request.data["wallet"].wallet_address = request.data["wallet_id"]
           /\ request.data["wallet"].btc_balance = 1
           /\ request.data["wallet"].user_id = key
           /\ request.data["wallet"] \in wallets

\* C7 witness: the chain has returned for a stored user who owned 2 wallets,
\* among wallets of another owner
C7_Witness ==
    \E key \in ApiKeys :
        /\ RegistrationFor(key)
        /\ Cardinality(OwnedBy(wallets0, key)) = 2
        /\ wallets0 # OwnedBy(wallets0, key)
        /\ status = "returned"

\* C8: with wallet_id present, WalletFetchHandler raises
\* WalletDoesNotExistError when no stored wallet has that id, leaving the wallet
\* attribute as it was and not invoking its successor; otherwise it sets wallet
\* to the stored wallet and invokes its successor.
C8_FetchStep ==
    ( /\ Invoking("WalletFetchHandler")
      /\ "wallet_id" \in DOMAIN request.data )
    => IF \E w \in wallets : w.wallet_address = request.data["wallet_id"]
       THEN /\ "wallet" \in DOMAIN request'.data
            /\ request'.data["wallet"] \in wallets
            /\ request'.data["wallet"].wallet_address = request.data["wallet_id"]
            /\ status' = "running"
            /\ error' = None
            /\ cur' = handlers[cur].successor
       ELSE /\ status' = "raised"
            /\ error' = "WalletDoesNotExistError"
            /\ request' = request
            /\ cur' = cur

C8_FetchCheck == [][C8_FetchStep]_vars

\* C8 witness: WalletFetchHandler alone has raised WalletDoesNotExistError on
\* a request naming a wallet id that is not stored
C8_Witness ==
    /\ status = "raised"
    /\ error = "WalletDoesNotExistError"
    /\ ChainKinds = << "WalletFetchHandler" >>
    /\ "wallet" \notin DOMAIN request.data

\* the fetch of a stored wallet is reached as well
C8_FetchedReached ==
    /\ status = "returned"
    /\ ChainKinds = << "WalletFetchHandler" >>
    /\ "wallet" \in DOMAIN request.data

\* C9 (one handler): with api_key present, ApiKeyValidationHandler raises
\* UserDoesNotExistError when no stored user has that key, and invokes its
\* successor when one has.
C9_ValidationStep ==
    ( /\ Invoking("ApiKeyValidationHandler")
      /\ "api_key" \in DOMAIN request.data )
    => IF request.data["api_key"] \in users
       THEN /\ status' = "running"
            /\ error' = None
            /\ cur' = handlers[cur].successor
       ELSE /\ status' = "raised"
            /\ error' = "UserDoesNotExistError"
            /\ wallets' = wallets

\* C9 (the registration chain): every stored wallet is owned by a stored user
C9_OwnersAreUsers == \A w \in wallets : w.user_id \in users

C9_UnknownKeyRefused == [] C9_OwnersAreUsers /\ [][C9_ValidationStep]_vars

\* C9 witness: the registration chain has raised UserDoesNotExistError while
\* wallets of stored users exist
C9_Witness ==
    /\ status = "raised"
    /\ error = "UserDoesNotExistError"
    /\ wallets # {}
    /\ wallets = wallets0

\* the places of list hold pairwise distinct handler objects of concrete classes
DistinctConcrete(list) ==
    /\ \A i \in 1..Len(list) :
          /\ list[i] \in DOMAIN handlers
          /\ handlers[list[i]].kind \in ConcreteKinds
    /\ \A i, j \in 1..Len(list) : list[i] = list[j] => i = j

\* C10 as claimed, read for lists of distinct concrete handlers: the empty list
\* gives an EmptyHandler; [h1..hn] gives h1 with each hi linked to h(i+1) and
\* an EmptyHandler as hn's successor.
C10_LastSuccessorEmpty ==
    status = "linked" =>
        IF chained = << >>
        THEN head = EmptyHandler
        ELSE DistinctConcrete(chained) =>
                /\ head = chained[1]
                /\ \A i \in 1..(Len(chained) - 1) :
                      handlers[chained[i]].successor = chained[i + 1]
                /\ handlers[chained[Len(chained)]].successor = EmptyHandler

\* C10 (the call): _chain_handlers on the empty list returns an EmptyHandler
\* and changes no handler; on [h1..hn], distinct concrete handlers, it returns
\* h1 with each hi linked to h(i+1), leaves hn's successor as it was, and
\* changes nothing of any handler but those links.
C10_ChainStep ==
    status' = "linked" =>
        IF chained' = << >>
        THEN /\ head' = EmptyHandler
             /\ handlers' = handlers
        ELSE DistinctConcrete(chained') =>
                LET n == Len(chained') IN
                /\ head' = chained'[1]
                /\ DOMAIN handlers' = DOMAIN handlers
                /\ \A i \in 1..(n - 1) : handlers'[chained'[i]].successor = chained'[i + 1]
                /\ handlers'[chained'[n]].successor = handlers[chained'[n]].successor
                /\ \A h \in DOMAIN handlers :
                      /\ handlers'[h].kind = handlers[h].kind
                      /\ (\A i \in 1..(n - 1) : chained'[i] # h) => handlers'[h] = handlers[h]

\* C10 (a fresh handler): a concrete handler is constructed with an
\* EmptyHandler as successor
C10_ConstructStep ==
    \A h \in DOMAIN handlers' \ DOMAIN handlers :
        handlers'[h].kind \in ConcreteKinds => handlers'[h].successor = EmptyHandler

\* C10 (the empty chain): handle on an EmptyHandler changes nothing
C10_EmptyHandleStep ==
    (status = "running" /\ cur = EmptyHandler) =>
        /\ status' = "returned"
        /\ request' = request
        /\ UNCHANGED << users, wallets, uuids, handlers, error >>

\* C10, amended: hn's successor is what it was before the call, an
\* EmptyHandler when it was never set
C10_ChainTopology == [][C10_ChainStep /\ C10_ConstructStep /\ C10_EmptyHandleStep]_vars

\* C10 witness: a list of three distinct concrete handlers was linked whose
\* last handler had a successor from an earlier call, and keeps it
C10_Witness ==
    /\ status = "linked"
    /\ Len(chained) = 3
    /\ DistinctConcrete(chained)
    /\ head = chained[1]
    /\ handlers[chained[1]].successor = chained[2]
    /\ handlers[chained[2]].successor = chained[3]
    /\ handlers[chained[3]].successor = chained[1]

\* the case of fresh handlers is reached as well: the last successor is an EmptyHandler
C10_FreshReached ==
    /\ status = "linked"
    /\ Len(chained) = 3
    /\ DistinctConcrete(chained)
    /\ handlers[chained[1]].successor = chained[2]
    /\ handlers[chained[2]].successor = chained[3]
    /\ handlers[chained[3]].successor = EmptyHandler

\* the running chain lists a WalletOwnershipHandler before a WalletFetchHandler
OwnershipBeforeFetch ==
    \E i, j \in 1..Len(chained) :
        /\ i < j
        /\ ChainKinds[i] = "WalletOwnershipHandler"
        /\ ChainKinds[j] = "WalletFetchHandler"

\* C11: when a chain with WalletOwnershipHandler before WalletFetchHandler has
\* returned and the request carries a wallet, the request carries an api_key
\* and the wallet is owned by it.
C11_FetchedWalletIsCallers ==
    ( /\ status = "returned"
      /\ OwnershipBeforeFetch
      /\ "wallet" \in DOMAIN request.data )
    => /\ "api_key" \in DOMAIN request.data
       /\ request.data["wallet"].user_id = request.data["api_key"]

\* what does hold: a request that carries an api_key gets no wallet of another owner
C11_WithApiKey ==
    ( /\ status = "returned"
      /\ OwnershipBeforeFetch
      /\ "wallet" \in DOMAIN request.data
      /\ "api_key" \in DOMAIN request.data )
    => request.data["wallet"].user_id = request.data["api_key"]

\* one BtcConversionHandler.handle call: the converter is asked once, for 1 btc in
\* usd; then either a rate is written and the successor is next, or the converter's
\* failure is raised with the request untouched
C12_ConversionStep ==
    Invoking("BtcConversionHandler") =>
        /\ calls' = Append(calls, <<"converter.get_conversion", "btc", "usd", "1">>)
        /\ wallets' = wallets
        /\ \/ /\ status' = "running"
              /\ cur' = handlers[cur].successor
              /\ DOMAIN request'.data = DOMAIN request.data \cup {"exchange_rate"}
              /\ request'.data["exchange_rate"] \in Rates
              /\ \A k \in DOMAIN request.data \ {"exchange_rate"} :
                    request'.data[k] = request.data[k]
              /\ request'.logs = request.logs
           \/ /\ status' = "raised"
              /\ error' = "ConverterError"
              /\ request' = request
              /\ cur' = cur

\* C12: BtcConversionHandler asks the converter for 1 BTC in USD on every request,
\* writes the answer to exchange_rate and delegates; when the converter fails the
\* failure is raised as it is, exchange_rate is not written and no later handler runs.
C12_ConversionOrFailure ==
    /\ [][C12_ConversionStep]_vars
    /\ [][(status = "raised" /\ error = "ConverterError") => invoked' \in {invoked, <<>>}]_vars

\* the converter failed under a conversion handler that has a successor
C12_Witness ==
    /\ status = "raised"
    /\ error = "ConverterError"
    /\ Len(chained) = 2
    /\ invoked = << chained[1] >>
    /\ "exchange_rate" \notin DOMAIN request.data

\* a rate was written and the successor of the conversion handler ran
C12_RateReached ==
    /\ status = "returned"
    /\ Len(chained) = 2
    /\ ChainKinds[1] = "BtcConversionHandler"
    /\ Len(invoked) = 2
    /\ request.data["exchange_rate"] \in Rates

\* the registration handlers that ran before the handler that raised
RegistrationsBeforeRaise ==
    { i \in 1..(Len(invoked) - 1) : handlers[invoked[i]].kind = "WalletRegistrationHandler" }

\* a handler raised after a WalletRegistrationHandler had created a wallet
RaisedAfterRegistration ==
    /\ status = "raised"
    /\ "api_key" \in DOMAIN request0
    /\ RegistrationsBeforeRaise # {}

\* C13: nothing is rolled back. When a handler raises after a
\* WalletRegistrationHandler created a wallet, every wallet the chain created is
\* still stored, the request still carries the wallet_id and wallet it was given,
\* and ending the request leaves the repository as it is.
C13_NoRollback ==
    /\ [](RaisedAfterRegistration =>
            /\ wallets0 \subseteq wallets
            /\ Cardinality(wallets \ wallets0) = Cardinality(RegistrationsBeforeRaise)
            /\ "wallet_id" \in DOMAIN request.data
            /\ "wallet" \in DOMAIN request.data
            /\ request.data["wallet"] \in wallets \ wallets0
            /\ request.data["wallet"].wallet_address = request.data["wallet_id"])
    /\ [][status = "raised" => wallets' = wallets]_vars

\* the handler after a WalletRegistrationHandler raised and the new wallet is stored
C13_Witness ==
    /\ RaisedAfterRegistration
    /\ Len(invoked) = 2
    /\ wallets # wallets0
    /\ "wallet" \in DOMAIN request.data

\* the handlers that only validate
ValidationKinds ==
    {"ApiKeyValidationHandler", "WalletCountHandler", "WalletOwnershipHandler"}

\* logs' is logs, or logs with one entry appended
AtMostOneAppended(before, after) ==
    \/ after = before
    \/ /\ Len(after) = Len(before) + 1
       /\ SubSeq(after, 1, Len(before)) = before

\* C15: ApiKeyValidationHandler, WalletCountHandler and WalletOwnershipHandler
\* leave the request's attributes and the user and wallet repositories as they
\* were on every path (skip, pass or raise); only request.logs may grow.
C15_ValidationFrame ==
    [][(\E kind \in ValidationKinds : Invoking(kind)) =>
          /\ request'.data = request.data
          /\ users' = users
          /\ wallets' = wallets
          /\ uuids' = uuids
          /\ AtMostOneAppended(request.logs, request'.logs)]_vars

\* a count check and an ownership check both passed, and nothing but the trace moved
C15_Witness ==
    /\ status = "returned"
    /\ ChainKinds = <<"WalletCountHandler", "WalletOwnershipHandler">>
    /\ Len(invoked) = 2
    /\ Len(calls) = 2
    /\ request.data = request0
    /\ wallets = wallets0

\* the attributes a handler of this kind needs in order to run its own logic
Precondition(kind) ==
    CASE kind = "BtcConversionHandler" -> {}
      [] kind = "WalletOwnershipHandler" -> {"api_key", "wallet_id"}
      [] kind = "WalletFetchHandler" -> {"wallet_id"}
      [] OTHER -> {"api_key"}

\* the i-th invoked handler found an attribute of its precondition absent: api_key
\* is never written by a handler, wallet_id only by an earlier registration
SkippedAt(i) ==
    LET present == (DOMAIN request0)
                   \cup IF /\ "api_key" \in DOMAIN request0
                           /\ \E j \in 1..(i - 1) :
                                 handlers[invoked[j]].kind = "WalletRegistrationHandler"
                        THEN {"wallet_id"} ELSE {}
    IN  ~ (Precondition(handlers[invoked[i]].kind) \subseteq present)

\* one handle call: one entry appended when the handler skips, none when it runs
C18_LogStep ==
    \A kind \in ConcreteKinds :
        Invoking(kind) =>
            IF Precondition(kind) \subseteq DOMAIN request.data
            THEN request'.logs = request.logs
            ELSE /\ Len(request'.logs) = Len(request.logs) + 1
                 /\ SubSeq(request'.logs, 1, Len(request.logs)) = request.logs
                 /\ status' = "running"

\* C18: request.logs is append-only during a run; a handler appends exactly one
\* entry when it skips for an absent attribute and nothing when it runs (pass or
\* raise), so the number of entries is the number of handlers that skipped.
C18_LogsCountSkips ==
    /\ [][C18_LogStep]_vars
    /\ [][status = "running" =>
            /\ Len(request'.logs) >= Len(request.logs)
            /\ SubSeq(request'.logs, 1, Len(request.logs)) = request.logs]_vars
    /\ [](status \in {"running", "returned", "raised"} =>
            Len(request.logs) = Cardinality({ i \in 1..Len(invoked) : SkippedAt(i) }))

\* a run in which one handler skipped and the next one ran
C18_Witness ==
    /\ status = "returned"
    /\ Len(invoked) = 2
    /\ SkippedAt(1)
    /\ ~ SkippedAt(2)
    /\ Len(request.logs) = 1
    /\ "wallet" \in DOMAIN request.data

\* --------------------------------------------- concurrent registration chains
\* Every thread has its own chain and its own ServiceRequest; the repositories
\* are shared, and the threads interleave between handle calls.

\* the handle body of the handler at a position of the registration chain
RegistrationBody(kind, req) ==
    CASE kind = "ApiKeyValidationHandler" -> ApiKeyValidationHandler_body(req)
      [] kind = "WalletCountHandler" -> WalletCountHandler_body(req)
      [] kind = "WalletRegistrationHandler" -> WalletRegistrationHandler_body(req)

\* a thread invokes the head of its registration chain on a request of its own
ThreadInvoke(t, api_key) ==
    /\ threads[t].status = "idle"
    /\ uuids + Cardinality({ u \in Threads : threads[u].status = "running" }) < MaxWallets
    /\ threads' = [threads EXCEPT ![t] =
                      [status |-> "running", pc |-> 1,
                       request |-> ServiceRequest([k \in {"api_key"} |-> api_key]),
                       error |-> None]]
    /\ UNCHANGED << users, wallets, uuids, handlers, head, chained, request, status,
                    cur, error, invoked, calls, request0, wallets0 >>

\* the handle call of the thread's current handler, on the shared repositories
ThreadHandle(t) ==
    /\ threads[t].status = "running"
    /\ threads[t].pc \in 1..Len(RegistrationChain)
    /\ LET out == RegistrationBody(RegistrationChain[threads[t].pc], threads[t].request)
       IN  /\ wallets' = out.wallets
           /\ uuids' = out.uuids
           /\ threads' = [threads EXCEPT ![t] =
                  IF out.error # None
                  THEN [status |-> "raised", pc |-> threads[t].pc,
                        request |-> out.request, error |-> out.error]
                  ELSE [status |-> "running", pc |-> threads[t].pc + 1,
                        request |-> out.request, error |-> None]]
    /\ UNCHANGED << users, handlers, head, chained, request, status,
                    cur, error, invoked, calls, request0, wallets0 >>

\* the last handler's successor is the EmptyHandler: the thread's invocation returns
ThreadEmptyHandle(t) ==
    /\ threads[t].status = "running"
    /\ threads[t].pc = Len(RegistrationChain) + 1
    /\ threads' = [threads EXCEPT ![t].status = "returned"]
    /\ UNCHANGED << users, wallets, uuids, handlers, head, chained, request, status,
                    cur, error, invoked, calls, request0, wallets0 >>

\* the caller is done with the thread's request
ThreadFinish(t) ==
    /\ threads[t].status \in {"returned", "raised"}
    /\ threads' = [threads EXCEPT ![t] = IdleThread]
    /\ UNCHANGED << users, wallets, uuids, handlers, head, chained, request, status,
                    cur, error, invoked, calls, request0, wallets0 >>

ThreadInvokeAny == \E t \in Threads, api_key \in ApiKeys : ThreadInvoke(t, api_key)

ThreadHandleAny == \E t \in Threads : ThreadHandle(t)

ThreadEmptyHandleAny == \E t \in Threads : ThreadEmptyHandle(t)

ThreadFinishAny == \E t \in Threads : ThreadFinish(t)

NextConcurrent ==
    \/ ThreadInvokeAny
    \/ ThreadHandleAny
    \/ ThreadEmptyHandleAny
    \/ ThreadFinishAny

SpecConcurrent == Init /\ [][NextConcurrent]_vars

\* C14: with several registration chains running concurrently over one shared
\* wallet repository, each on its own request and interleaved between handle
\* calls, no user ever owns more than 3 wallets.
C14_ConcurrentLimit ==
    \A key \in users : Cardinality(OwnedBy(wallets, key)) <= WalletLimit

\* what the interleaving still guarantees: every thread adds at most one wallet
\* after the count it saw, so the excess is below the number of threads
C14_BoundedExcess ==
    \A key \in users : Cardinality(OwnedBy(wallets, key)) < WalletLimit + MaxThreads

\* a chain invocation is under way or has ended
InRun == status \in {"running", "returned", "raised"}

\* the handlers invoked so far are the first handlers of the list, in its order
InListOrder ==
    /\ Len(invoked) <= Len(chained)
    /\ \A i \in 1..Len(invoked) : invoked[i] = chained[i]

\* no handler was invoked twice
AtMostOnce == \A i, j \in 1..Len(invoked) : invoked[i] = invoked[j] => i = j

\* C17 as claimed, for any list: during and after an invocation of the head the
\* handlers invoked are the list's first handlers in list order, none twice.
C17_ListOrderOnce ==
    InRun => (InListOrder /\ AtMostOnce)

\* the list holds pairwise distinct concrete handlers and the last one's
\* successor is an EmptyHandler
LinearChain ==
    /\ DistinctConcrete(chained)
    /\ chained # << >> => handlers[chained[Len(chained)]].successor = EmptyHandler

\* C17: for a chain built by _chain_handlers from pairwise distinct concrete
\* handlers whose last handler has an EmptyHandler as successor, invoking the
\* head terminates: the handlers invoked are the list's first handlers in list
\* order, none twice, the next call is the next handler's or the final
\* EmptyHandler's, and a run that returns has invoked every handler once.
C17_LinearChainRuns ==
    (InRun /\ LinearChain) =>
        /\ InListOrder
        /\ AtMostOnce
        /\ status = "running" =>
              cur = IF Len(invoked) < Len(chained)
                    THEN chained[Len(invoked) + 1] ELSE EmptyHandler
        /\ status = "returned" => invoked = chained
        /\ status = "raised" => (error # "RecursionError" /\ cur = invoked[Len(invoked)])

\* a chain of two reused or fresh handlers ran to its end, each invoked once
C17_Witness ==
    /\ status = "returned"
    /\ LinearChain
    /\ Len(chained) = 2
    /\ invoked = chained

\* a handler was invoked a second time in one run
C17_TwiceReached ==
    /\ InRun
    /\ ~ AtMostOnce

\* C16 as claimed: no handler's successor is null. A handler whose successor was
\* never configured, a bare BaseHandler included, has an EmptyHandler as
\* successor.
C16_SuccessorNeverNull ==
    \A h \in DOMAIN handlers : handlers[h].successor # None

\* the rest of C16, which holds: a concrete handler is constructed with an
\* EmptyHandler as successor, EmptyHandler.handle changes nothing,
\* EmptyHandler.set_next returns its argument and links nothing, and
\* BaseHandler.handle always fails with NotImplementedError
C16_RestHolds ==
    /\ [][\A h \in DOMAIN handlers' \ DOMAIN handlers :
            handlers'[h].kind \in ConcreteKinds => handlers'[h].successor = EmptyHandler]_vars
    /\ [][(status = "running" /\ cur = EmptyHandler) =>
            (status' = "returned" /\ request' = request /\ handlers' = handlers
             /\ wallets' = wallets /\ users' = users)]_vars
    /\ [](\A h \in DOMAIN handlers : set_next(handlers, EmptyHandler, h) = handlers)
    /\ [][Invoking("BaseHandler") =>
            (status' = "raised" /\ error' = "NotImplementedError" /\ request' = request)]_vars

\* a freshly constructed concrete handler was invoked on its own and returned
C16_AloneReached ==
    /\ status = "returned"
    /\ Len(chained) = 1
    /\ invoked = chained
    /\ \A h \in DOMAIN handlers : handlers[h].successor = EmptyHandler

\* a bare BaseHandler was invoked and raised
C16_BaseRaisedReached ==
    /\ status = "raised"
    /\ error = "NotImplementedError"

====
